---- MODULE Spec2Model ----
(***************************************************************************)
(* GraphBuilder.makeGraph of pipe_base (graphBuilder.py): the construction *)
(* of a QuantumGraph from a pipeline, the rows of one registry join query  *)
(* and the registry's init-input datasets.                                 *)
(*                                                                         *)
(* Python dicts are modelled as insertion-ordered sequences of <<key,      *)
(* value>> entries, Python lists as sequences, Python sets as sets (their  *)
(* iteration order is a nondeterministic choice).                          *)
(***************************************************************************)
EXTENDS Integers, Sequences, FiniteSets, TLC

\* ------------------------------------------------------------------ bounds
MaxTasks == 2       \* longest pipeline
MaxRows == 2        \* most rows returned by the join query
MaxExisting == 2    \* most output datasets that already exist in the registry
MaxRefs == 2        \* longest parsedCmd.dataRefList
MaxCollections == 3 \* most collections in the source butler's registry

\* ------------------------------------------------- generic sequence helpers
Range(s) == {s[i] : i \in 1..Len(s)}

RECURSIVE Concat(_)
Concat(ss) == IF ss = <<>> THEN <<>> ELSE Head(ss) \o Concat(Tail(ss))

\* all orderings of a finite set, as sequences without repetition
Orderings(S) ==
    {s \in [1..Cardinality(S) -> S] : \A i, j \in 1..Cardinality(S) : s[i] = s[j] => i = j}

SeqsUpTo(S, n) == UNION {[1..k -> S] : k \in 0..n}

\* ----------------------------------------------------------- Python dicts
DictKeys(d) == [i \in 1..Len(d) |-> d[i][1]]
DictValues(d) == [i \in 1..Len(d) |-> d[i][2]]
DictHas(d, k) == \E i \in 1..Len(d) : d[i][1] = k
DictGet(d, k) == d[CHOOSE i \in 1..Len(d) : d[i][1] = k][2]

\* d[k] = v: replaces the value of an existing key in place, appends a new key
DictSet(d, k, v) ==
    IF DictHas(d, k)
    THEN [i \in 1..Len(d) |-> IF d[i][1] = k THEN <<k, v>> ELSE d[i]]
    ELSE Append(d, <<k, v>>)

\* d.setdefault(k, default), the value returned
DictGetDefault(d, k, default) == IF DictHas(d, k) THEN DictGet(d, k) ELSE default

\* --------------------------------------------- registry.dimensions universe
\* link columns in the order sorted() gives their names
LinkOrder == <<"detector", "instrument", "visit">>
AllLinks == Range(LinkOrder)

\* Dimension.links() of the dimensions a task may name as quantum dimensions
DimensionLinks(dimensionName) ==
    CASE dimensionName = "visit" -> <<"instrument", "visit">>
      [] dimensionName = "detector" -> <<"instrument", "detector">>

\* the link columns of the DataCoordinate of a dataset type
DatasetTypeLinks(name) ==
    IF name = "visitSummary" THEN {"instrument", "visit"} ELSE AllLinks

\* the DataCoordinates the registry knows
Coordinates ==
    { [instrument |-> 1, visit |-> 1, detector |-> 10],
      [instrument |-> 1, visit |-> 1, detector |-> 11] }

\* ------------------------------------------------------ pipeline task pool
\* the task configurations of the pool: what config.quantum.dimensions and
\* get{Input,Output,InitInput,InitOutput}DatasetTypes(config) give for each
ConfigNames == {"T1", "T1c", "T2", "T3"}

TaskConfig(configName) ==
    CASE configName = "T1" ->
           [dimensions |-> <<"visit", "detector">>, inputs |-> <<"raw">>,
            outputs |-> <<"calexp">>, initInputs |-> <<>>, initOutputs |-> <<"schema">>]
      [] configName = "T1c" ->
           [dimensions |-> <<"visit", "detector">>, inputs |-> <<"raw">>,
            outputs |-> <<"calexp", "psf">>, initInputs |-> <<>>,
            initOutputs |-> <<"schema">>]
      [] configName = "T2" ->
           [dimensions |-> <<"visit", "detector">>, inputs |-> <<"calexp">>,
            outputs |-> <<"src">>, initInputs |-> <<"schema">>, initOutputs |-> <<>>]
      [] configName = "T3" ->
           [dimensions |-> <<"visit">>, inputs |-> <<"calexp", "visitSummary">>,
            outputs |-> <<>>, initInputs |-> <<"refcat">>, initOutputs |-> <<>>]

\* T1 and T1c configure the same task
LabelOf(configName) == IF configName = "T1c" THEN "T1" ELSE configName

\* a DatasetType instance; owner tells the declarations of one name apart
DatasetType(name, owner) == [name |-> name, owner |-> owner]

DatasetTypesOf(label, names) == [i \in 1..Len(names) |-> DatasetType(names[i], label)]

NoneValue == "None"

\* taskFactory.loadTaskClass(taskName): the class and the fully-qualified name
CanonicalName(taskName) ==
    CASE taskName = "T1" -> "lsst.T1" [] taskName = "T2" -> "lsst.T2"
      [] taskName = "T3" -> "lsst.T3" [] OTHER -> taskName

\* the TaskDefs of T3 come with their task class loaded, the others without
ClassLoaded(configName) == configName = "T3"

\* a TaskDef of a caller's pipeline
TaskDef(configName) ==
    [label |-> LabelOf(configName),
     taskName |-> IF ClassLoaded(configName) THEN CanonicalName(LabelOf(configName))
                  ELSE LabelOf(configName),
     taskClass |-> IF ClassLoaded(configName) THEN LabelOf(configName) ELSE NoneValue,
     config |-> configName]

\* pipelines: sequences of tasks of the pool with distinct labels
Pipelines ==
    {[i \in 1..Len(p) |-> TaskDef(p[i])] :
        p \in {q \in SeqsUpTo(ConfigNames, MaxTasks) :
                  Len(q) >= 1 /\ \A i, j \in 1..Len(q) :
                                    LabelOf(q[i]) = LabelOf(q[j]) => i = j}}

\* the user queries tried, and what ParserYacc.parse makes of each
UserQueries == {NoneValue, "", "detector = 10", "visit = )"}

\* originInfo.getInputCollections(name), in priority order
InputCollections == <<"c1", "c2">>

\* ------------------------------------------------ GraphBuilder.makeGraph
\* _loadTaskClass: an updated copy when the class is not loaded yet
\* if taskDef.taskClass is None
NeedsLoad(taskDef) == taskDef.taskClass = NoneValue

\* the class taskFactory.loadTaskClass(taskName) returns
LoadedClass(taskName) ==
    CASE taskName \in {"T1", "lsst.T1"} -> "T1" [] taskName \in {"T2", "lsst.T2"} -> "T2"
      [] taskName \in {"T3", "lsst.T3"} -> "T3"

LoadTaskClass(taskDef) ==
    IF NeedsLoad(taskDef)
    THEN [taskDef EXCEPT !.taskClass = LoadedClass(taskDef.taskName),
                         !.taskName = CanonicalName(taskDef.taskName)]
    ELSE taskDef

\* the class and the name set on the caller's TaskDef itself, without a copy
TaskDefAfterLoadInPlace(taskDef) == LoadTaskClass(taskDef)

\* the caller's TaskDef object after _loadTaskClass: copy.copy(taskDef) is what
\* gets the class and the name, the object of the pipeline is left as it was
TaskDefAfterLoad(taskDef) == taskDef

\* the task names taskFactory.loadTaskClass is called with, in order
LoadRequests(pl) ==
    LET asked == SelectSeq(pl, LAMBDA taskDef : NeedsLoad(taskDef))
    IN  [i \in 1..Len(asked) |-> asked[i].taskName]

\* the _TaskDatasetTypes tuple of one task
TaskDatasetTypes(taskDef) ==
    LET config == TaskConfig(taskDef.config)
    IN  [taskDef |-> taskDef,
         inputs |-> DatasetTypesOf(taskDef.label, config.inputs),
         outputs |-> DatasetTypesOf(taskDef.label, config.outputs),
         initInputs |-> DatasetTypesOf(taskDef.label, config.initInputs),
         initOutputs |-> DatasetTypesOf(taskDef.label, config.initOutputs)]

CollectTaskDatasets(pl) == [i \in 1..Len(pl) |-> TaskDatasetTypes(LoadTaskClass(pl[i]))]

\* ------------------------------------- GraphBuilder._makeFullIODatasetTypes
IoTypes == <<"inputs", "outputs", "initInputs", "initOutputs">>

\* the (ioType, dsType) pairs in the order the nested loops visit them
Declarations(taskDatasets) ==
    Concat([t \in 1..Len(taskDatasets) |->
        Concat([k \in 1..Len(IoTypes) |->
            [i \in 1..Len(taskDatasets[t][IoTypes[k]]) |->
                <<IoTypes[k], taskDatasets[t][IoTypes[k]][i]>>]])])

RECURSIVE CollectNames(_, _)
CollectNames(decls, acc) ==
    IF decls = <<>> THEN acc
    ELSE LET ioType == Head(decls)[1]
             dsType == Head(decls)[2]
         IN  CollectNames(Tail(decls),
                 [acc EXCEPT ![ioType] = @ \cup {dsType.name},
                             !.allDatasetTypes = DictSet(@, dsType.name, dsType)])

\* "inputs -= outputs" left out
KeepProduced(consumed, produced) == consumed

\* inputs -= outputs, initInputs -= initOutputs
RemoveProduced(consumed, produced) == consumed \ produced

MakeFullIODatasetTypes(taskDatasets) ==
    LET acc == CollectNames(Declarations(taskDatasets),
                   [inputs |-> {}, outputs |-> {}, initInputs |-> {}, initOutputs |-> {},
                    allDatasetTypes |-> <<>>])
        types(names) == {DictGet(acc.allDatasetTypes, name) : name \in names}
    IN  [inputs |-> types(RemoveProduced(acc.inputs, acc.outputs)),
         outputs |-> types(acc.outputs),
         initInputs |-> types(RemoveProduced(acc.initInputs, acc.initOutputs)),
         initOutputs |-> types(acc.initOutputs)]

Names(dsTypes) == {dsType.name : dsType \in dsTypes}

\* ------------------------------------------------------ registry contents
DatasetRef(name, dataId, id) == [datasetType |-> name, dataId |-> dataId, id |-> id]

\* a dataset instance: a dataset type name and the DataCoordinate of the type
Instance(name, coordinate) ==
    <<name, [col \in DatasetTypeLinks(name) |-> coordinate[col]]>>

\* the output dataset instances the rows over `coordinates` refer to
ReferencedOutputs(coordinates, outputNames) ==
    {Instance(name, coordinates[i]) : name \in outputNames, i \in 1..Len(coordinates)}

\* one row of selectDimensions: its DataCoordinate and a DatasetRef for every
\* dataset type of the query; the ref of an output has an id iff it exists
DimensionRow(coordinate, inputNames, outputNames, exist) ==
    [dataId |-> coordinate,
     datasetRefs |-> [name \in inputNames \cup outputNames |->
        DatasetRef(name, Instance(name, coordinate)[2],
                   IF name \in inputNames \/ Instance(name, coordinate) \in exist
                   THEN "id" ELSE NoneValue)]]

\* the rows the registry's join gives for `expr`
Selects(expression, coordinate) ==
    expression = "detector = 10" => coordinate.detector = 10

\* the dataset registry.find returns from a collection
FoundRef(collection, name) ==
    DatasetRef(name, <<>>, IF collection = "c1" THEN "id@c1" ELSE "id@c2")

\* ----------------------------------------- GraphBuilder._makeGraph, grouping
QLinksFirstOnly(dimensions) ==
    IF dimensions = <<>> THEN <<>> ELSE DimensionLinks(dimensions[1])

\* qlinks += dimension.links() over config.quantum.dimensions
QLinks(dimensions) ==
    Concat([i \in 1..Len(dimensions) |-> DimensionLinks(dimensions[i])])

QKey(row, qlinks) == [i \in 1..Len(qlinks) |-> <<qlinks[i], row.dataId[qlinks[i]]>>]

\* _dataRefKey: tuple(sorted(dataRef.dataId.items()))
DataRefKey(dataRef) ==
    LET cols == SelectSeq(LinkOrder, LAMBDA col : col \in DOMAIN dataRef.dataId)
    IN  [i \in 1..Len(cols) |-> <<cols[i], dataRef.dataId[cols[i]]>>]

\* the refs kept in a list: one entry per row
SetDataRefAppend(dataRefs, dataRef) == Append(dataRefs, <<DataRefKey(dataRef), dataRef>>)

\* dataRefs[_dataRefKey(dataRef)] = dataRef
SetDataRef(dataRefs, dataRef) == DictSet(dataRefs, DataRefKey(dataRef), dataRef)

\* the loop "for dsType in taskDss.inputs" (or outputs) for one row
RECURSIVE AddDataRefs(_, _, _)
AddDataRefs(qrefs, dsTypes, row) ==
    IF dsTypes = <<>> THEN qrefs
    ELSE LET name == Head(dsTypes).name
             dataRefs == DictGetDefault(qrefs, name, <<>>)
         IN  AddDataRefs(DictSet(qrefs, name, SetDataRef(dataRefs, row.datasetRefs[name])),
                         Tail(dsTypes), row)

\* the body of "for row in dimensionVerse"
FoldRow(tq, taskDss, qlinks, row) ==
    LET qkey == QKey(row, qlinks)
    IN  [inputs |-> DictSet(tq.inputs, qkey,
                       AddDataRefs(DictGetDefault(tq.inputs, qkey, <<>>), taskDss.inputs, row)),
         outputs |-> DictSet(tq.outputs, qkey,
                       AddDataRefs(DictGetDefault(tq.outputs, qkey, <<>>), taskDss.outputs, row))]

RECURSIVE FoldRows(_, _, _, _)
FoldRows(tq, taskDss, qlinks, rows) ==
    IF rows = <<>> THEN tq
    ELSE FoldRows(FoldRow(tq, taskDss, qlinks, Head(rows)), taskDss, qlinks, Tail(rows))

EmptyQuanta == [inputs |-> <<>>, outputs |-> <<>>]

\* taskQuantaInputs and taskQuantaOutputs of one task
GroupRows(taskDss, rows) ==
    FoldRows(EmptyQuanta, taskDss, QLinks(TaskConfig(taskDss.taskDef.config).dimensions), rows)

\* chain.from_iterable(dataRefs.values() for dataRefs in qrefs.values())
FlattenRefs(qrefs) ==
    Concat([i \in 1..Len(qrefs) |-> DictValues(DictValues(qrefs)[i])])

Exists(ref) == ref.id # NoneValue
AllExist(refs) == \A i \in 1..Len(refs) : Exists(refs[i])
AnyExist(refs) == \E i \in 1..Len(refs) : Exists(refs[i])

\* the policy with skipExisting ignored
QuantumDecisionNoSkip(skip, outputRefs) ==
    IF AnyExist(outputRefs) THEN "raise" ELSE "emit"

\* the policy without the check that stops an overwrite
QuantumDecisionNoRaise(skip, outputRefs) ==
    IF skip /\ AllExist(outputRefs) THEN "skip" ELSE "emit"

\* the policy with the skip taken for partly produced quanta too
QuantumDecisionSkipAny(skip, outputRefs) ==
    IF skip /\ AnyExist(outputRefs) THEN "skip"
    ELSE IF AnyExist(outputRefs) THEN "raise" ELSE "emit"

\* the existence policy of one quantum: continue, raise, or build it
QuantumDecision(skip, outputRefs) ==
    IF skip /\ AllExist(outputRefs) THEN "skip"
    ELSE IF AnyExist(outputRefs) THEN "raise"
    ELSE "emit"

\* the loop over the input dataset types left after the first type
MakeQuantumFirstTypeOnly(outputRefs, qinputs) ==
    [outputs |-> outputRefs,
     predictedInputs |-> IF qinputs = <<>> THEN <<>> ELSE DictValues(qinputs[1][2])]

\* the Quantum built for a surviving key
MakeQuantum(outputRefs, qinputs) ==
    [outputs |-> outputRefs, predictedInputs |-> FlattenRefs(qinputs)]

NoError == [kind |-> NoneValue, name |-> NoneValue, refs |-> <<>>]
Error(kind, name, refs) == [kind |-> kind, name |-> name, refs |-> refs]

\* the exception caught where it arises: the call goes on to its next step
AfterRaiseGoesOn(nextStep) == nextStep

\* where the call stands after a raise: nothing in makeGraph or _makeGraph
\* catches, so the exception leaves the call
AfterRaise(nextStep) == "error"

\* "break" in place of "continue": the keys after a skipped one are dropped
AfterSkipBreak(keyIndex, numKeys) == numKeys + 1

\* "continue": on to the next key
AfterSkip(keyIndex, numKeys) == keyIndex + 1

\* a task without quanta left out of the graph
AppendNodeUnlessEmpty(nodes, taskDef, taskQuantaList) ==
    IF taskQuantaList = <<>> THEN nodes
    ELSE Append(nodes, [taskDef |-> taskDef, quanta |-> taskQuantaList])

\* qgraph.append(QuantumGraphTaskNodes(taskDss.taskDef, quanta))
AppendNode(nodes, taskDef, taskQuantaList) ==
    Append(nodes, [taskDef |-> taskDef, quanta |-> taskQuantaList])

\* one pass of the "for qkey in taskQuantaInputs" loop, on the loop's state
\* st = [keyIdx, quanta, err]
QuantumStep(taskDss, tq, skip, st) ==
    LET qkey == DictKeys(tq.inputs)[st.keyIdx]
        outputRefs == FlattenRefs(DictGet(tq.outputs, qkey))
        decision == QuantumDecision(skip, outputRefs)
    IN  CASE decision = "skip" ->
               [st EXCEPT !.keyIdx = AfterSkip(st.keyIdx, Len(tq.inputs))]
          [] decision = "raise" ->
               [st EXCEPT !.err = Error("OutputExistsError", taskDss.taskDef.taskName,
                                        outputRefs)]
          [] decision = "emit" ->
               [st EXCEPT !.quanta = Append(@, MakeQuantum(outputRefs, DictGet(tq.inputs, qkey))),
                          !.keyIdx = st.keyIdx + 1]

\* the whole "for qkey" loop of one task
RECURSIVE QuantumLoop(_, _, _, _)
QuantumLoop(taskDss, tq, skip, st) ==
    IF st.err # NoError \/ st.keyIdx > Len(tq.inputs) THEN st
    ELSE QuantumLoop(taskDss, tq, skip, QuantumStep(taskDss, tq, skip, st))

\* the "for taskDss in taskDatasets" loop from task t on: the task nodes appended
\* to `nodes`, or the error that ends it
RECURSIVE TaskLoop(_, _, _, _, _)
TaskLoop(tds, rows, skip, t, nodes) ==
    IF t > Len(tds) THEN [err |-> NoError, nodes |-> nodes]
    ELSE LET st == QuantumLoop(tds[t], GroupRows(tds[t], rows), skip,
                               [keyIdx |-> 1, quanta |-> <<>>, err |-> NoError])
         IN  IF st.err # NoError THEN [err |-> st.err, nodes |-> nodes]
             ELSE TaskLoop(tds, rows, skip, t + 1,
                           AppendNode(nodes, tds[t].taskDef, st.quanta))

\* ------------------------------------------------------------------ state
\* a result that is not there, and the Struct(val=...) a timed method returns
NoResult == <<>>
Struct(val) == <<val>>

VARIABLES
    skipExisting,   \* GraphBuilder.skipExisting
    pc,             \* where the makeGraph call stands
    pipeline,       \* makeGraph's pipeline argument
    userQuery,      \* makeGraph's userQuery argument
    taskDatasets,   \* the _TaskDatasetTypes of the tasks, in pipeline order
    io,             \* the four sets _makeFullIODatasetTypes returns
    expr,           \* the expression handed to selectDimensions
    calls,          \* the registry methods called so far, in order
    existing,       \* the output dataset instances that exist in the registry
    dimensionVerse, \* the buffered rows
    qgraph,         \* the QuantumGraph under construction
    initPending,    \* init-input dataset types not looked up yet
    initCur,        \* the init-input dataset type being looked up
    initColl,       \* index of the next input collection to search for it
    taskIdx,        \* index of the task of the "for taskDss" loop
    taskQuanta,     \* taskQuantaInputs and taskQuantaOutputs
    keyIdx,         \* index of the key of the "for qkey" loop
    quanta,         \* the quanta list of the current task
    err,            \* the exception the call raised
    loaded,         \* the task names taskFactory.loadTaskClass was called with
    metadata,       \* timeMethod: the names added to the task's metadata, in order
    timed,          \* timeMethod: the frame of the wrapper call
    outputLocation, \* build: what the filesystem holds at outputLocation
    buildOps,       \* build: what was done to the source butler, the filesystem
                    \* and the new butler, in order
    builder,        \* build: the frame of the build call
    parsedCmd,      \* _runParsedCmd: doraise and dataRefList of the parsed command
    dataRefIdx,     \* _runParsedCmd: index of the dataRef of the "for dataRef" loop
    cmdLog,         \* _runParsedCmd: the puts, runs and log messages, in order
    cmdExc,         \* _runParsedCmd: the exception that left the call
    chains,         \* _export: the children of every collection of the registry
    requested,      \* _export: the collections _discoverCollections is called with
    collections,    \* _discoverCollections: its local set
    savedCollections \* _export: the collections handed to exporter.saveCollection

vars == <<skipExisting, pc, pipeline, userQuery, taskDatasets, io, expr, calls, existing,
          dimensionVerse, qgraph, initPending, initCur, initColl, taskIdx, taskQuanta,
          keyIdx, quanta, err, loaded, metadata, timed, outputLocation, buildOps, builder,
          parsedCmd, dataRefIdx, cmdLog, cmdExc, chains, requested, collections,
          savedCollections>>

timerVars == <<metadata, timed>>
exportVars == <<chains, requested, collections, savedCollections>>
cmdVars == <<parsedCmd, dataRefIdx, cmdLog, cmdExc>>
butlerVars == <<outputLocation, buildOps, builder, exportVars>>
graphVars == <<skipExisting, pipeline, userQuery, taskDatasets, io, expr, calls, existing,
               dimensionVerse, qgraph, initPending, initCur, initColl, taskIdx, taskQuanta,
               keyIdx, quanta, err, loaded>>

Call(op, collection, name, arg) ==
    [op |-> op, collection |-> collection, name |-> name, arg |-> arg]

EmptyGraph ==
    [inputDatasetTypes |-> {}, outputDatasetTypes |-> {}, initInputs |-> <<>>,
     initOutputs |-> <<>>, nodes |-> <<>>]

Init ==
    /\ skipExisting \in BOOLEAN
    /\ pc = "call"
    /\ pipeline = <<>>
    /\ userQuery = NoneValue
    /\ taskDatasets = <<>>
    /\ io = [inputs |-> {}, outputs |-> {}, initInputs |-> {}, initOutputs |-> {}]
    /\ expr = NoneValue
    /\ calls = <<>>
    /\ existing = {}
    /\ dimensionVerse = <<>>
    /\ qgraph = EmptyGraph
    /\ initPending = {}
    /\ initCur = NoneValue
    /\ initColl = 0
    /\ taskIdx = 0
    /\ taskQuanta = EmptyQuanta
    /\ keyIdx = 0
    /\ quanta = <<>>
    /\ err = NoError
    /\ loaded = <<>>
    /\ metadata = <<>>
    /\ timed = [func |-> NoneValue, val |-> 0, addend |-> 0, res |-> NoResult,
                exc |-> NoneValue, returned |-> NoResult, propagated |-> NoneValue]
    /\ outputLocation = NoneValue
    /\ buildOps = <<>>
    /\ builder = [graph |-> {}, clobber |-> FALSE, found |-> NoneValue, dirExists |-> FALSE,
                  exports |-> {}, inserts |-> {}, exc |-> NoneValue]
    /\ parsedCmd = [doraise |-> FALSE, dataRefList |-> <<>>]
    /\ dataRefIdx = 0
    /\ cmdLog = <<>>
    /\ cmdExc = NoneValue
    /\ chains = <<>>
    /\ requested = {}
    /\ collections = {}
    /\ savedCollections = {}

\* makeGraph up to the call of _makeGraph
MakeGraph ==
    /\ pc = "call"
    /\ \E pl \in Pipelines, query \in UserQueries :
        /\ pipeline' = [i \in 1..Len(pl) |-> TaskDefAfterLoad(pl[i])]
        /\ userQuery' = query
        /\ taskDatasets' = CollectTaskDatasets(pl)
        /\ io' = MakeFullIODatasetTypes(CollectTaskDatasets(pl))
        /\ loaded' = LoadRequests(pl)
    /\ pc' = "parse"
    /\ UNCHANGED <<timerVars, butlerVars, cmdVars, skipExisting, expr, calls, existing, dimensionVerse, qgraph, initPending,
                   initCur, initColl, taskIdx, taskQuanta, keyIdx, quanta, err>>

\* makeGraph when taskFactory.loadTaskClass raises for the first class to load
\* ("loadTaskClass"), or a get...DatasetTypes getter of the first task raises
\* ("getDatasetTypes")
MakeGraphRaises ==
    /\ pc = "call"
    /\ \E pl \in Pipelines, query \in UserQueries, failing \in {"loadTaskClass", "getDatasetTypes"} :
        /\ failing = "loadTaskClass" => LoadRequests(pl) # <<>>
        /\ pipeline' = pl
        /\ userQuery' = query
        /\ loaded' = IF failing = "loadTaskClass" THEN <<LoadRequests(pl)[1]>>
                      ELSE LoadRequests(pl)
        /\ err' = Error("Exception", failing, <<>>)
    /\ pc' = AfterRaise("parse")
    /\ UNCHANGED <<timerVars, butlerVars, cmdVars, skipExisting, taskDatasets, io, expr, calls, existing, dimensionVerse,
                   qgraph, initPending, initCur, initColl, taskIdx, taskQuanta, keyIdx,
                   quanta>>

\* ParserYacc.parse raises ParserYaccError
ParseFails(text) == text = "visit = )"

\* ParserYacc.parse of a well-formed text: no tree (None) for the empty text,
\* else the expression tree, which stands here by the string str() makes of it
ParseTree(text) == IF text = "" THEN NoneValue ELSE text

\* userQuery or ""
UserQueryText(query) == IF query = NoneValue THEN "" ELSE query

\* the parser's error swallowed: the query is taken as absent
ParseUserQueryIgnoringError(text) ==
    [raised |-> NoError, tree |-> IF ParseFails(text) THEN NoneValue ELSE ParseTree(text)]

\* _parseUserQuery(text): the tree, or UserExpressionError(text, exc) raised
\* where exc is the parser's ParserYaccError
ParseUserQueryText(text) ==
    IF ParseFails(text)
    THEN [raised |-> Error("UserExpressionError", text, <<"ParserYaccError">>),
          tree |-> NoneValue]
    ELSE [raised |-> NoError, tree |-> ParseTree(text)]

\* the text handed on as it is, parsed or not
ExprOfText(text, parsedQuery) == text

\* expr = None if parsedQuery is None else str(parsedQuery)
ExprOf(text, parsedQuery) == IF parsedQuery = NoneValue THEN NoneValue ELSE parsedQuery

\* _parseUserQuery(userQuery or "") and the expression string made of its tree
ParseUserQuery ==
    /\ pc = "parse"
    /\ LET text == UserQueryText(userQuery)
           parsed == ParseUserQueryText(text)
       IN  IF parsed.raised # NoError
           THEN /\ err' = parsed.raised
                /\ pc' = AfterRaise("select")
                /\ expr' = expr
           ELSE /\ expr' = ExprOf(text, parsed.tree)
                /\ pc' = "select"
                /\ err' = err
    /\ UNCHANGED <<timerVars, butlerVars, cmdVars, loaded, skipExisting, pipeline, userQuery, taskDatasets, io, calls, existing,
                   dimensionVerse, qgraph, initPending, initCur, initColl, taskIdx,
                   taskQuanta, keyIdx, quanta>>

\* registry.selectDimensions, the buffering of its rows, and the new QuantumGraph
SelectDimensions ==
    /\ pc = "select"
    /\ \E coordinates \in SeqsUpTo(Coordinates, MaxRows) :
        /\ \A i \in 1..Len(coordinates) : Selects(expr, coordinates[i])
        /\ \E exist \in SUBSET ReferencedOutputs(coordinates, Names(io.outputs)) :
            /\ Cardinality(exist) <= MaxExisting
            /\ existing' = exist
            /\ dimensionVerse' =
                  [i \in 1..Len(coordinates) |->
                      DimensionRow(coordinates[i], Names(io.inputs), Names(io.outputs), exist)]
    /\ calls' = Append(calls, Call("selectDimensions", NoneValue, NoneValue, expr))
    /\ qgraph' = [qgraph EXCEPT !.inputDatasetTypes = io.inputs,
                                !.outputDatasetTypes = io.outputs]
    /\ initPending' = Names(io.initInputs)
    /\ initCur' = NoneValue
    /\ pc' = "initInputs"
    /\ UNCHANGED <<timerVars, butlerVars, cmdVars, loaded, skipExisting, pipeline, userQuery, taskDatasets, io, expr, initColl,
                   taskIdx, taskQuanta, keyIdx, quanta, err>>

\* registry.selectDimensions raises
SelectDimensionsRaises ==
    /\ pc = "select"
    /\ calls' = Append(calls, Call("selectDimensions", NoneValue, NoneValue, expr))
    /\ err' = Error("Exception", "selectDimensions", <<>>)
    /\ pc' = AfterRaise("initInputs")
    /\ UNCHANGED <<timerVars, butlerVars, cmdVars, loaded, skipExisting, pipeline, userQuery, taskDatasets, io, expr, existing,
                   dimensionVerse, qgraph, initPending, initCur, initColl, taskIdx,
                   taskQuanta, keyIdx, quanta>>

\* the lookup made with a registry method that adds the dataset when it is missing
FindOrAddCall(collection, name, found) ==
    Call("addDataset", collection, name, IF found THEN "found" ELSE NoneValue)

\* result = self.registry.find(collection, dsType)
FindCall(collection, name, found) ==
    Call("find", collection, name, IF found THEN "found" ELSE NoneValue)

\* the search goes on after a hit
AfterFindNoBreak(found, collIdx) == collIdx = Len(InputCollections)

\* "break" after a hit, and the end of the collections after a miss
AfterFind(found, collIdx) == found \/ collIdx = Len(InputCollections)

\* one registry.find(collection, dsType) of the init-input loop
InitInputFind ==
    /\ pc = "initInputs"
    /\ \E name \in (IF initCur = NoneValue THEN initPending ELSE {initCur}),
          found \in BOOLEAN :
        LET collIdx == IF initCur = NoneValue THEN 1 ELSE initColl
            collection == InputCollections[collIdx]
            over == AfterFind(found, collIdx)
        IN  /\ calls' = Append(calls, FindCall(collection, name, found))
            /\ qgraph' = IF found
                         THEN [qgraph EXCEPT !.initInputs = Append(@, FoundRef(collection, name))]
                         ELSE qgraph
            /\ IF over /\ ~found
               THEN /\ err' = Error("GraphBuilderError", name, <<>>)
                    /\ pc' = AfterRaise("initInputs")
                    /\ UNCHANGED <<initPending, initCur, initColl>>
               ELSE /\ initPending' = IF over THEN initPending \ {name} ELSE initPending
                    /\ initCur' = IF over THEN NoneValue ELSE name
                    /\ initColl' = IF over THEN 0 ELSE collIdx + 1
                    /\ UNCHANGED <<pc, err>>
    /\ UNCHANGED <<timerVars, butlerVars, cmdVars, loaded, skipExisting, pipeline, userQuery, taskDatasets, io, expr, existing,
                   dimensionVerse, taskIdx, taskQuanta, keyIdx, quanta>>

\* qgraph.initOutputs.append(DatasetRef(dsType, {})) for every init output
InitOutputs ==
    /\ pc = "initInputs"
    /\ initCur = NoneValue
    /\ initPending = {}
    /\ \E order \in Orderings(Names(io.initOutputs)) :
        qgraph' = [qgraph EXCEPT !.initOutputs =
                      [i \in 1..Len(order) |-> DatasetRef(order[i], <<>>, NoneValue)]]
    /\ taskIdx' = 1
    /\ pc' = "tasks"
    /\ UNCHANGED <<timerVars, butlerVars, cmdVars, loaded, skipExisting, pipeline, userQuery, taskDatasets, io, expr, calls, existing,
                   dimensionVerse, initPending, initCur, initColl, taskQuanta, keyIdx,
                   quanta, err>>

\* the task, the key and the outputs of this pass of the "for qkey" loop
CurTask == taskDatasets[taskIdx]
CurKey == DictKeys(taskQuanta.inputs)[keyIdx]
CurOutputs == FlattenRefs(DictGet(taskQuanta.outputs, CurKey))
CurStep ==
    QuantumStep(CurTask, taskQuanta, skipExisting,
                [keyIdx |-> keyIdx, quanta |-> quanta, err |-> err])

\* one list for the whole pipeline: a task goes on with the quanta of the task
\* before it
NewQuantaCarried(carried) == carried

\* "quanta = []" inside the task loop: every task starts with a list of its
\* own, whatever the name was bound to by the task before
NewQuanta(carried) == <<>>

\* the grouping loop "for row in dimensionVerse" of one task, and "quanta = []"
GroupTaskRows ==
    /\ pc = "tasks"
    /\ taskIdx <= Len(taskDatasets)
    /\ taskQuanta' = GroupRows(CurTask, dimensionVerse)
    /\ quanta' = NewQuanta(quanta)
    /\ keyIdx' = 1
    /\ pc' = "quanta"
    /\ UNCHANGED <<timerVars, butlerVars, cmdVars, loaded, skipExisting, pipeline, userQuery, taskDatasets, io, expr, calls, existing,
                   dimensionVerse, qgraph, initPending, initCur, initColl, taskIdx, err>>

\* all outputs exist and skipExisting: "continue"
SkipQuantum ==
    /\ pc = "quanta"
    /\ keyIdx <= Len(taskQuanta.inputs)
    /\ QuantumDecision(skipExisting, CurOutputs) = "skip"
    /\ keyIdx' = CurStep.keyIdx
    /\ UNCHANGED <<timerVars, butlerVars, cmdVars, loaded, skipExisting, pc, pipeline, userQuery, taskDatasets, io, expr, calls,
                   existing, dimensionVerse, qgraph, initPending, initCur, initColl, taskIdx,
                   taskQuanta, quanta, err>>

\* some outputs exist: raise OutputExistsError(taskName, outputs)
RaiseOutputExists ==
    /\ pc = "quanta"
    /\ keyIdx <= Len(taskQuanta.inputs)
    /\ QuantumDecision(skipExisting, CurOutputs) = "raise"
    /\ err' = CurStep.err
    /\ pc' = AfterRaise("quanta")
    /\ UNCHANGED <<timerVars, butlerVars, cmdVars, loaded, skipExisting, pipeline, userQuery, taskDatasets, io, expr, calls, existing,
                   dimensionVerse, qgraph, initPending, initCur, initColl, taskIdx,
                   taskQuanta, keyIdx, quanta>>

\* no output exists: the quantum is built and appended to quanta
EmitQuantum ==
    /\ pc = "quanta"
    /\ keyIdx <= Len(taskQuanta.inputs)
    /\ QuantumDecision(skipExisting, CurOutputs) = "emit"
    /\ quanta' = CurStep.quanta
    /\ keyIdx' = CurStep.keyIdx
    /\ UNCHANGED <<timerVars, butlerVars, cmdVars, loaded, skipExisting, pc, pipeline, userQuery, taskDatasets, io, expr, calls,
                   existing, dimensionVerse, qgraph, initPending, initCur, initColl, taskIdx,
                   taskQuanta, err>>

\* qgraph.append(QuantumGraphTaskNodes(taskDef, quanta)) and the next task
AppendTaskNodes ==
    /\ pc = "quanta"
    /\ keyIdx > Len(taskQuanta.inputs)
    /\ qgraph' = [qgraph EXCEPT !.nodes = AppendNode(@, CurTask.taskDef, quanta)]
    /\ taskIdx' = taskIdx + 1
    /\ taskQuanta' = EmptyQuanta
    /\ keyIdx' = 0
    /\ pc' = "tasks"
    /\ UNCHANGED <<timerVars, butlerVars, cmdVars, loaded, skipExisting, pipeline, userQuery, taskDatasets, io, expr, calls, existing,
                   dimensionVerse, initPending, initCur, initColl, quanta, err>>

\* return qgraph
ReturnGraph ==
    /\ pc = "tasks"
    /\ taskIdx > Len(taskDatasets)
    /\ pc' = "done"
    /\ UNCHANGED <<timerVars, butlerVars, cmdVars, loaded, skipExisting, pipeline, userQuery, taskDatasets, io, expr, calls, existing,
                   dimensionVerse, qgraph, initPending, initCur, initColl, taskIdx,
                   taskQuanta, keyIdx, quanta, err>>

\* ------------------------------------------------ timer.py: timeMethod
\* the names logInfo adds to the metadata, in order: Utc by metadata.add, the
\* others by logPairs
LogInfoKeys ==
    <<"Utc", "CpuTime", "UserTime", "SystemTime", "MaxResidentSetSize", "MinorPageFaults",
      "MajorPageFaults", "BlockInputs", "BlockOutputs", "VoluntaryContextSwitches",
      "InvoluntaryContextSwitches">>

\* the metadata name prefix + key, prefix being func.__name__ + "Start" or "End"
MetadataName(func, when, key) == <<func, when, key>>

\* logInfo(obj, prefix): the names added to obj.metadata
LogInfo(func, when) == [i \in 1..Len(LogInfoKeys) |-> MetadataName(func, when, LogInfoKeys[i])]

\* the timed methods of the tests: AddTask.run adds "add" to the metadata and
\* returns Struct(val + addend), AddMultTask.failDec raises RuntimeError
TimedMethods == {"run", "failDec"}
TimedValues == {1, 2}
Addends == {3, 4}

\* the body of the wrapped method
MethodBody(func, val, addend) ==
    IF func = "run"
    THEN [added |-> << <<"add">> >>, res |-> Struct(val + addend), exc |-> NoneValue]
    ELSE [added |-> <<>>, res |-> NoResult, exc |-> "RuntimeError"]

\* the End entries logged after the call instead of in a finally clause
AfterBodyNoFinally(exc) == IF exc = NoneValue THEN "timer.end" ELSE "timer.raised"

\* try: res = func(...) finally: logInfo(... "End"): the End entries come next
\* whether the body returned or raised
AfterBody(exc) == "timer.end"

\* a method wrapped by timeMethod is called on a new task
TimeMethodCall ==
    /\ pc = "call"
    /\ \E func \in TimedMethods, val \in TimedValues, addend \in Addends :
        timed' = [timed EXCEPT !.func = func, !.val = val, !.addend = addend]
    /\ pc' = "timer.start"
    /\ UNCHANGED <<graphVars, butlerVars, cmdVars, metadata>>

\* logInfo(obj=self, prefix=func.__name__ + "Start")
LogInfoStart ==
    /\ pc = "timer.start"
    /\ metadata' = metadata \o LogInfo(timed.func, "Start")
    /\ pc' = "timer.body"
    /\ UNCHANGED <<graphVars, butlerVars, cmdVars, timed>>

\* res = func(self, *args, **keyArgs)
RunBody ==
    /\ pc = "timer.body"
    /\ LET body == MethodBody(timed.func, timed.val, timed.addend)
       IN  /\ metadata' = metadata \o body.added
           /\ timed' = [timed EXCEPT !.res = body.res, !.exc = body.exc,
                                     !.propagated = IF AfterBody(body.exc) = "timer.raised"
                                                    THEN body.exc ELSE @]
           /\ pc' = AfterBody(body.exc)
    /\ UNCHANGED <<graphVars, butlerVars, cmdVars>>

\* the finally clause, then "return res" or the exception goes on to the caller
LogInfoEnd ==
    /\ pc = "timer.end"
    /\ metadata' = metadata \o LogInfo(timed.func, "End")
    /\ IF timed.exc = NoneValue
       THEN /\ timed' = [timed EXCEPT !.returned = timed.res]
            /\ pc' = "timer.returned"
       ELSE /\ timed' = [timed EXCEPT !.propagated = timed.exc]
            /\ pc' = "timer.raised"
    /\ UNCHANGED <<graphVars, butlerVars, cmdVars>>

\* ------------------------- makeLightWeightButler.py: LightWeightButlerBuilder
\* the DatasetRefs a graph's quanta may hold: an existing dataset, one to be
\* produced, and a component of one
GraphRefs ==
    { [datasetType |-> "raw", dataId |-> 1, id |-> "id", component |-> FALSE],
      [datasetType |-> "calexp", dataId |-> 1, id |-> NoneValue, component |-> FALSE],
      [datasetType |-> "calexp.wcs", dataId |-> 1, id |-> NoneValue, component |-> TRUE] }

\* _accumulate: the refs with an id are exported, the data ids of the others
\* are to be inserted under their dataset type, components are skipped
Accumulate(graph) ==
    [exports |-> {ref \in graph : ~ref.component /\ ref.id # NoneValue},
     inserts |-> {<<ref.datasetType, ref.dataId>> :
                     ref \in {r \in graph : ~r.component /\ r.id = NoneValue}}]

\* what os.path.exists(outputLocation) may find
LocationContents == {"absent", "file", "directory"}

\* the check inverted: it raises when clobber is set
FailsFastOnClobber(dirExists, clobber) == dirExists /\ clobber

\* (dirExists := os.path.exists(outputLocation)) and not clobber
FailsFast(dirExists, clobber) == dirExists /\ ~clobber

\* the filesystem calls of _setupNewButler
SetupOps(dirExists, isFile) ==
    (IF dirExists THEN (IF isFile THEN <<"os.remove">> ELSE <<"shutil.rmtree">>) ELSE <<>>)
        \o <<"os.mkdir", "Registry.createFromConfig">>

\* build is called
Build ==
    /\ pc = "call"
    /\ \E graph \in SUBSET GraphRefs, clobber \in BOOLEAN, found \in LocationContents :
        /\ builder' = [builder EXCEPT !.graph = graph, !.clobber = clobber, !.found = found]
        /\ outputLocation' = found
    /\ pc' = "build.check"
    /\ UNCHANGED <<graphVars, timerVars, cmdVars, exportVars, buildOps>>

\* "Do this first to Fail Fast if the output exists"
BuildCheck ==
    /\ pc = "build.check"
    /\ LET dirExists == outputLocation # "absent"
       IN  IF FailsFast(dirExists, builder.clobber)
           THEN /\ builder' = [builder EXCEPT !.dirExists = dirExists,
                                              !.exc = "FileExistsError"]
                /\ pc' = "build.raised"
           ELSE /\ builder' = [builder EXCEPT !.dirExists = dirExists]
                /\ pc' = "build.accumulate"
    /\ UNCHANGED <<graphVars, timerVars, cmdVars, exportVars, outputLocation, buildOps>>

\* exports, inserts = self._accumulate(graph)
BuildAccumulate ==
    /\ pc = "build.accumulate"
    /\ builder' = [builder EXCEPT !.exports = Accumulate(builder.graph).exports,
                                  !.inserts = Accumulate(builder.graph).inserts]
    /\ buildOps' = Append(buildOps, "_accumulate")
    /\ pc' = "build.export"
    /\ UNCHANGED <<graphVars, timerVars, cmdVars, exportVars, outputLocation>>

\* yamlBuffer = self._export(exports): reads the source butler
BuildExport ==
    /\ pc = "build.export"
    /\ buildOps' = Append(buildOps, "_export")
    /\ pc' = "build.setup"
    /\ UNCHANGED <<graphVars, timerVars, cmdVars, exportVars, outputLocation, builder>>

\* newButler = self._setupNewButler(outputLocation, dirExists)
BuildSetupNewButler ==
    /\ pc = "build.setup"
    /\ buildOps' = buildOps \o SetupOps(builder.dirExists, outputLocation = "file")
    /\ outputLocation' = "new butler"
    /\ pc' = "build.import"
    /\ UNCHANGED <<graphVars, timerVars, cmdVars, exportVars, builder>>

\* self._import(...) and newButler._config.dumpToUri(...)
BuildImport ==
    /\ pc = "build.import"
    /\ buildOps' = buildOps \o <<"import_">>
            \o (IF builder.inserts = {} THEN <<>> ELSE <<"insertDatasets">>)
            \o <<"dumpToUri">>
    /\ outputLocation' = "new butler with butler.yaml"
    /\ pc' = "build.done"
    /\ UNCHANGED <<graphVars, timerVars, cmdVars, exportVars, builder>>

\* ------------------------------------- cmdLineTask.py: _runParsedCmd
\* the dataIds of the data references, and the lists of them a parsed command
\* may hold (a reference may come more than once)
DataIds == 1..MaxRefs
DataRefLists == SeqsUpTo(DataIds, MaxRefs)

\* how dataRef.put and self.run end: normally, or with an exception of class
\* Exception (TaskError is one), the classes the except clauses name
PutOutcomes == {"ok", "Exception"}
RunOutcomes == {"ok", "TaskError", "Exception"}

\* the try block around the config, or the metadata, of one dataRef: the put,
\* and the warning its exception is turned into
PutEvents(what, dataId, outcome) ==
    <<<<"put:" \o what, dataId, outcome>>>>
      \o (IF outcome = "ok" THEN <<>> ELSE <<<<"log.WARN", dataId, what>>>>)

\* self.run(dataRef), and under "not doraise" the except clause: the FATAL
\* message, and the traceback of an exception that is not a TaskError
RunEvents(doraise, dataId, outcome) ==
    <<<<"run", dataId, outcome>>>>
      \o (IF doraise \/ outcome = "ok" THEN <<>> ELSE <<<<"log.FATAL", dataId, outcome>>>>)
      \o (IF doraise \/ outcome \in {"ok", "TaskError"} THEN <<>>
          ELSE <<<<"print_exc", dataId, outcome>>>>)

\* the exception of run caught whatever doraise is
AfterRunCaught(doraise, outcome) == "cmd.metadata"

\* where the call stands after self.run: under doraise nothing catches, an
\* exception leaves the call
AfterRun(doraise, outcome) ==
    IF doraise /\ outcome # "ok" THEN "cmd.raised" ELSE "cmd.metadata"

\* the "for dataRef in parsedCmd.dataRefList" loop at index i
NextDataRef(i, dataRefList) == IF i > Len(dataRefList) THEN "cmd.done" ELSE "cmd.config"

DataRef == parsedCmd.dataRefList[dataRefIdx]

\* task._runParsedCmd(parsedCmd)
RunParsedCmd ==
    /\ pc = "call"
    /\ \E doraise \in BOOLEAN, dataRefList \in DataRefLists :
          /\ parsedCmd' = [doraise |-> doraise, dataRefList |-> dataRefList]
          /\ pc' = NextDataRef(1, dataRefList)
    /\ dataRefIdx' = 1
    /\ UNCHANGED <<graphVars, timerVars, butlerVars, cmdLog, cmdExc>>

\* dataRef.put(parsedCmd.config, configName) in its try block
PersistConfig ==
    /\ pc = "cmd.config"
    /\ \E outcome \in PutOutcomes :
          cmdLog' = cmdLog \o PutEvents("config", DataRef, outcome)
    /\ pc' = "cmd.run"
    /\ UNCHANGED <<graphVars, timerVars, butlerVars, parsedCmd, dataRefIdx, cmdExc>>

\* self.run(dataRef), bare under doraise and in a try block otherwise
RunDataRef ==
    /\ pc = "cmd.run"
    /\ \E outcome \in RunOutcomes :
          /\ cmdLog' = cmdLog \o RunEvents(parsedCmd.doraise, DataRef, outcome)
          /\ pc' = AfterRun(parsedCmd.doraise, outcome)
          /\ cmdExc' = IF AfterRun(parsedCmd.doraise, outcome) = "cmd.raised"
                       THEN outcome ELSE cmdExc
    /\ UNCHANGED <<graphVars, timerVars, butlerVars, parsedCmd, dataRefIdx>>

\* dataRef.put(self.getFullMetadata(), metadataName) in its try block, and
\* the next dataRef
PersistMetadata ==
    /\ pc = "cmd.metadata"
    /\ \E outcome \in PutOutcomes :
          cmdLog' = cmdLog \o PutEvents("metadata", DataRef, outcome)
    /\ dataRefIdx' = dataRefIdx + 1
    /\ pc' = NextDataRef(dataRefIdx + 1, parsedCmd.dataRefList)
    /\ UNCHANGED <<graphVars, timerVars, butlerVars, parsedCmd, cmdExc>>

\* ---------------- makeLightWeightButler.py: _export, _discoverCollections
\* the collections of the source butler's registry, and the registries: every
\* collection with its children, none for a collection that is not a chain. The
\* registry keeps chains free of cycles: a child comes after its parent.
CollectionNames == 1..MaxCollections
Registries ==
    {reg \in [CollectionNames -> SUBSET CollectionNames] :
        \A c \in CollectionNames : \A child \in reg[c] : child > c}

\* the collections named, with the children of the chains among them
FlattenOnce(reg, names) == names \cup UNION {reg[c] : c \in names}

\* the same, the chains followed to the end
RECURSIVE Flatten(_, _)
Flatten(reg, names) ==
    IF FlattenOnce(reg, names) = names THEN names
    ELSE Flatten(reg, FlattenOnce(reg, names))

\* what registry.queryCollections(names, flattenChains=True, includeChains=True)
\* may return: the collections named and the children of the chains among
\* them, with any of the collections further down the chains
QueryCollections(reg, names) ==
    {found \in SUBSET CollectionNames :
        FlattenOnce(reg, names) \subseteq found /\ found \subseteq Flatten(reg, names)}

\* the loop left after its first query
KeepDiscoveringNever(discoveredCollections, colls) == FALSE

\* "if discoveredCollections - collections"
KeepDiscovering(discoveredCollections, colls) == discoveredCollections \ colls # {}

\* _export up to the call self._discoverCollections(collections), and
\* "collections = set(collections)"
ExportCollections ==
    /\ pc = "call"
    /\ \E reg \in Registries, names \in SUBSET CollectionNames :
          /\ chains' = reg
          /\ requested' = names
          /\ collections' = names
    /\ pc' = "export.discover"
    /\ UNCHANGED <<graphVars, timerVars, cmdVars, outputLocation, buildOps, builder,
                   savedCollections>>

\* a pass of "while True" that found a new collection
DiscoverMore ==
    /\ pc = "export.discover"
    /\ \E discoveredCollections \in QueryCollections(chains, collections) :
          /\ KeepDiscovering(discoveredCollections, collections)
          /\ collections' = discoveredCollections
    /\ UNCHANGED <<graphVars, timerVars, cmdVars, outputLocation, buildOps, builder, pc,
                   chains, requested, savedCollections>>

\* the pass that found none: "break" and "return collections"
DiscoverBreak ==
    /\ pc = "export.discover"
    /\ \E discoveredCollections \in QueryCollections(chains, collections) :
          ~KeepDiscovering(discoveredCollections, collections)
    /\ pc' = "export.returned"
    /\ UNCHANGED <<graphVars, timerVars, cmdVars, outputLocation, buildOps, builder,
                   exportVars>>

\* "for c in self._discoverCollections(collections): exporter.saveCollection(c)"
SaveCollections ==
    /\ pc = "export.returned"
    /\ savedCollections' = collections
    /\ pc' = "export.saved"
    /\ UNCHANGED <<graphVars, timerVars, cmdVars, outputLocation, buildOps, builder,
                   chains, requested, collections>>

Next ==
    \/ ExportCollections
    \/ DiscoverMore
    \/ DiscoverBreak
    \/ SaveCollections
    \/ RunParsedCmd
    \/ PersistConfig
    \/ RunDataRef
    \/ PersistMetadata
    \/ Build
    \/ BuildCheck
    \/ BuildAccumulate
    \/ BuildExport
    \/ BuildSetupNewButler
    \/ BuildImport
    \/ TimeMethodCall
    \/ LogInfoStart
    \/ RunBody
    \/ LogInfoEnd
    \/ MakeGraph
    \/ MakeGraphRaises
    \/ ParseUserQuery
    \/ SelectDimensions
    \/ SelectDimensionsRaises
    \/ InitInputFind
    \/ InitOutputs
    \/ GroupTaskRows
    \/ SkipQuantum
    \/ RaiseOutputExists
    \/ EmitQuantum
    \/ AppendTaskNodes
    \/ ReturnGraph

Spec == Init /\ [][Next]_vars

\* the call of _export runs on: a pass of its "while True" loop that can be
\* taken is taken
LiveSpec == Spec /\ WF_vars(DiscoverMore \/ DiscoverBreak)

\* ======================================================== properties
\* Vocabulary of the properties, stated on the rows, the registry contents and
\* the task configurations, not on the dictionaries the builder keeps.

Terminated == pc \in {"done", "error"}
\* makeGraph got as far as calling _makeGraph: the tasks' dataset types are collected
Collected == taskDatasets # <<>>
NumTasks == Len(taskDatasets)
ConfigOf(t) == TaskConfig(taskDatasets[t].taskDef.config)

\* the link dimensions of the quantum dimensions of task t, as a set
LinkSet(t) ==
    UNION {Range(DimensionLinks(ConfigOf(t).dimensions[i])) :
              i \in 1..Len(ConfigOf(t).dimensions)}

Projection(coordinate, links) == [col \in links |-> coordinate[col]]

\* the grouping keys of task t: the distinct projections of the buffered rows
KeysOf(t) ==
    {Projection(dimensionVerse[i].dataId, LinkSet(t)) : i \in 1..Len(dimensionVerse)}

RowsOfKey(t, key) ==
    {i \in 1..Len(dimensionVerse) : Projection(dimensionVerse[i].dataId, LinkSet(t)) = key}

\* the dataset instances of the given dataset types that the rows of a key refer to
Candidates(t, key, names) ==
    {Instance(names[n], dimensionVerse[i].dataId) :
        n \in 1..Len(names), i \in RowsOfKey(t, key)}
CandidateOutputs(t, key) == Candidates(t, key, ConfigOf(t).outputs)
CandidateInputs(t, key) == Candidates(t, key, ConfigOf(t).inputs)

InstanceOf(ref) == <<ref.datasetType, ref.dataId>>
InstancesOf(refs) == {InstanceOf(refs[i]) : i \in 1..Len(refs)}

\* the quanta of a quanta list that are the quantum of the given key of task t
QuantaOfKey(quantaList, t, key) ==
    {i \in 1..Len(quantaList) :
        /\ InstancesOf(quantaList[i].outputs) = CandidateOutputs(t, key)
        /\ InstancesOf(quantaList[i].predictedInputs) = CandidateInputs(t, key)}

FullyProduced(t, key) ==
    CandidateOutputs(t, key) # {} /\ CandidateOutputs(t, key) \subseteq existing
SomeProduced(t, key) == CandidateOutputs(t, key) \cap existing # {}

ConfigsOfPipeline == [t \in 1..Len(pipeline) |-> pipeline[t].config]
CoordinatesOfRows == [i \in 1..Len(dimensionVerse) |-> dimensionVerse[i].dataId]
Coordinate(visit, detector) == [instrument |-> 1, visit |-> visit, detector |-> detector]

\* C1: with skipExisting, a grouping key whose candidate outputs all exist gives
\* no quantum and no error: an OutputExistsError is never raised for such a key,
\* and in a returned graph every such key has no quantum while every key with an
\* output still to produce has exactly one. In Scenario B (T1, T2 over detectors
\* 10 and 11, calexp of detector 10 existing) T1 has the quantum of detector 11
\* only and T2 has both.
C1_SkipFullyProducedQuantum ==
    /\ (pc = "error" /\ err.kind = "OutputExistsError" /\ skipExisting)
          => ~(InstancesOf(err.refs) \subseteq existing)
    /\ (pc = "done" /\ skipExisting) =>
          \A t \in 1..NumTasks : \A key \in KeysOf(t) :
              /\ FullyProduced(t, key)
                    => QuantaOfKey(qgraph.nodes[t].quanta, t, key) = {}
              /\ ~(CandidateOutputs(t, key) \subseteq existing)
                    => Cardinality(QuantaOfKey(qgraph.nodes[t].quanta, t, key)) = 1
    /\ (/\ pc = "done" /\ skipExisting
        /\ ConfigsOfPipeline = <<"T1", "T2">>
        /\ CoordinatesOfRows = <<Coordinate(1, 10), Coordinate(1, 11)>>
        /\ existing = {Instance("calexp", Coordinate(1, 10))})
          => /\ Len(qgraph.nodes[1].quanta) = 1
             /\ InstancesOf(qgraph.nodes[1].quanta[1].outputs)
                   = {Instance("calexp", Coordinate(1, 11))}
             /\ Len(qgraph.nodes[2].quanta) = 2

\* Scenario B has run to its end
C1_Witness ==
    /\ pc = "done" /\ skipExisting
    /\ ConfigsOfPipeline = <<"T1", "T2">>
    /\ CoordinatesOfRows = <<Coordinate(1, 10), Coordinate(1, 11)>>
    /\ existing = {Instance("calexp", Coordinate(1, 10))}
    /\ FullyProduced(1, Projection(Coordinate(1, 10), LinkSet(1)))

\* a key that has a pre-existing output and is not the skip case
Conflict(t, key) ==
    SomeProduced(t, key) /\ ~(skipExisting /\ CandidateOutputs(t, key) \subseteq existing)

\* C2: once quantum assembly is reached (the query parsed, every init-input
\* found), a grouping key with a pre-existing output that is not the skip case
\* makes the call raise OutputExistsError: no graph is returned when such a key
\* exists, a call that fails during assembly fails with OutputExistsError at
\* such a key, and the loop never goes on to the next task past such a key: a
\* finished task node has no such key and no quantum with an existing output.
C2_OutputExistsError ==
    /\ pc = "done" => \A t \in 1..NumTasks : \A key \in KeysOf(t) : ~Conflict(t, key)
    /\ (pc = "error" /\ taskIdx >= 1) =>
          /\ err.kind = "OutputExistsError"
          /\ \E key \in KeysOf(taskIdx) :
                Conflict(taskIdx, key) /\ InstancesOf(err.refs) = CandidateOutputs(taskIdx, key)
    /\ pc = "tasks" =>
          \A t \in 1..Len(qgraph.nodes) : \A key \in KeysOf(t) :
              /\ ~Conflict(t, key)
              /\ SomeProduced(t, key) => QuantaOfKey(qgraph.nodes[t].quanta, t, key) = {}

\* Scenario C ended in OutputExistsError: calexp of a key exists, psf does not
C2_Witness ==
    /\ pc = "error" /\ err.kind = "OutputExistsError" /\ skipExisting
    /\ ConfigsOfPipeline = <<"T1c">>
    /\ \E i \in 1..Len(err.refs) : Exists(err.refs[i])
    /\ \E i \in 1..Len(err.refs) : ~Exists(err.refs[i])

\* C3 as claimed: in a returned graph every grouping key none of whose candidate
\* outputs exists, a key without candidate outputs included, has exactly one
\* quantum, whatever skipExisting is.
C3_NoOutputExistsProceeds ==
    pc = "done" =>
        \A t \in 1..NumTasks : \A key \in KeysOf(t) :
            ~SomeProduced(t, key)
                => Cardinality(QuantaOfKey(qgraph.nodes[t].quanta, t, key)) = 1

\* C4: no quantum of a returned graph has an output that already exists: every
\* output ref of every quantum is without identity and refers to a dataset
\* instance that is not in the registry.
C4_NoExistingOutputInGraph ==
    pc = "done" =>
        \A t \in 1..Len(qgraph.nodes) : \A i \in 1..Len(qgraph.nodes[t].quanta) :
            /\ \A j \in 1..Len(qgraph.nodes[t].quanta[i].outputs) :
                  qgraph.nodes[t].quanta[i].outputs[j].id = NoneValue
            /\ InstancesOf(qgraph.nodes[t].quanta[i].outputs) \cap existing = {}

\* a graph was returned with quanta that have outputs, while other outputs of
\* the same task exist already
C4_Witness ==
    /\ pc = "done"
    /\ existing # {}
    /\ \E t \in 1..NumTasks :
          /\ \E i \in 1..Len(qgraph.nodes[t].quanta) : qgraph.nodes[t].quanta[i].outputs # <<>>
          /\ \E key \in KeysOf(t) : SomeProduced(t, key)

\* the names all tasks of the pipeline declare in one category
Declared(ioType) ==
    UNION {Range(TaskConfig(pipeline[t].config)[ioType]) : t \in 1..Len(pipeline)}

\* C5: the global reduction gives, by name, globalInputs = union(inputs) minus
\* union(outputs), globalInitInputs = union(initInputs) minus
\* union(initOutputs), globalOutputs = union(outputs), globalInitOutputs =
\* union(initOutputs); inputs and outputs are disjoint, and so are init-inputs
\* and init-outputs.
C5_GlobalReduction ==
    ((pc = "parse" \/ Terminated) /\ Collected) =>
        /\ Names(io.inputs) = Declared("inputs") \ Declared("outputs")
        /\ Names(io.initInputs) = Declared("initInputs") \ Declared("initOutputs")
        /\ Names(io.outputs) = Declared("outputs")
        /\ Names(io.initOutputs) = Declared("initOutputs")
        /\ Names(io.inputs) \cap Names(io.outputs) = {}
        /\ Names(io.initInputs) \cap Names(io.initOutputs) = {}

\* a pipeline with an intermediate dataset type and an intermediate init type
C5_Witness ==
    /\ pc = "done"
    /\ Declared("inputs") \cap Declared("outputs") # {}
    /\ Declared("initInputs") \cap Declared("initOutputs") # {}
    /\ Names(io.inputs) # {}

\* the entries of a grouping dictionary whose key is the projection of row i
\* onto the link set of task t
EntriesOfRow(dict, t, i) ==
    {e \in 1..Len(dict) :
        Range(dict[e][1]) = {<<col, dimensionVerse[i].dataId[col]>> : col \in LinkSet(t)}}

\* the refs an entry of a grouping dictionary holds for a dataset type
RefsOfType(entry, name) == DictValues(DictGetDefault(entry[2], name, <<>>))

NumRefsTo(refs, instance) == Cardinality({j \in 1..Len(refs) : InstanceOf(refs[j]) = instance})

NoRepeatedInstance(refs) ==
    \A j, k \in 1..Len(refs) : InstanceOf(refs[j]) = InstanceOf(refs[k]) => j = k

\* C6: when the rows of a task have been grouped, the entry of a row's grouping
\* key holds exactly one DatasetRef for each dataset instance the row refers
\* to, inputs and outputs alike, however many rows of the key refer to it;
\* folding any buffered row in once more changes nothing; and no quantum of a
\* returned graph holds two refs to one dataset instance.
C6_DedupIdempotence ==
    /\ (pc = "quanta" /\ keyIdx = 1) =>
          \A i \in 1..Len(dimensionVerse) :
              /\ \A side \in {"inputs", "outputs"} :
                    /\ EntriesOfRow(taskQuanta[side], taskIdx, i) # {}
                    /\ \A e \in EntriesOfRow(taskQuanta[side], taskIdx, i) :
                          \A n \in 1..Len(ConfigOf(taskIdx)[side]) :
                              NumRefsTo(RefsOfType(taskQuanta[side][e], ConfigOf(taskIdx)[side][n]),
                                        Instance(ConfigOf(taskIdx)[side][n],
                                                 dimensionVerse[i].dataId)) = 1
              /\ FoldRow(taskQuanta, CurTask, QLinks(ConfigOf(taskIdx).dimensions),
                         dimensionVerse[i]) = taskQuanta
    /\ pc = "done" =>
          \A t \in 1..Len(qgraph.nodes) : \A i \in 1..Len(qgraph.nodes[t].quanta) :
              /\ NoRepeatedInstance(qgraph.nodes[t].quanta[i].outputs)
              /\ NoRepeatedInstance(qgraph.nodes[t].quanta[i].predictedInputs)

\* a graph was returned with a quantum for a key two rows of which refer to
\* the same input instance and to the same output instance
C6_Witness ==
    /\ pc = "done"
    /\ \E t \in 1..NumTasks : \E i, j \in 1..Len(dimensionVerse) :
          /\ i # j
          /\ Projection(dimensionVerse[i].dataId, LinkSet(t))
                = Projection(dimensionVerse[j].dataId, LinkSet(t))
          /\ \E n \in 1..Len(ConfigOf(t).inputs) :
                Instance(ConfigOf(t).inputs[n], dimensionVerse[i].dataId)
                  = Instance(ConfigOf(t).inputs[n], dimensionVerse[j].dataId)
          /\ \E n \in 1..Len(ConfigOf(t).outputs) :
                Instance(ConfigOf(t).outputs[n], dimensionVerse[i].dataId)
                  = Instance(ConfigOf(t).outputs[n], dimensionVerse[j].dataId)
          /\ QuantaOfKey(qgraph.nodes[t].quanta, t,
                         Projection(dimensionVerse[i].dataId, LinkSet(t))) # {}

AgreeOnLinks(t, i, j) ==
    \A col \in LinkSet(t) : dimensionVerse[i].dataId[col] = dimensionVerse[j].dataId[col]

\* C7: when the rows of a task have been grouped, every row has exactly one entry,
\* the one keyed by its projection onto the link set of the task's quantum
\* dimensions, which holds the dataset instances the row refers to; two rows
\* have the same entry iff they agree on every link dimension; and there are as
\* many entries as distinct projections, whether or not a link name is
\* contributed by several dimensions.
C7_GroupingByLinks ==
    (pc = "quanta" /\ keyIdx = 1) =>
        /\ Len(taskQuanta.inputs) = Cardinality(KeysOf(taskIdx))
        /\ DictKeys(taskQuanta.inputs) = DictKeys(taskQuanta.outputs)
        /\ \A i \in 1..Len(dimensionVerse) : \A side \in {"inputs", "outputs"} :
              /\ Cardinality(EntriesOfRow(taskQuanta[side], taskIdx, i)) = 1
              /\ \A e \in EntriesOfRow(taskQuanta[side], taskIdx, i) :
                    \A n \in 1..Len(ConfigOf(taskIdx)[side]) :
                        Instance(ConfigOf(taskIdx)[side][n], dimensionVerse[i].dataId)
                          \in InstancesOf(FlattenRefs(taskQuanta[side][e][2]))
        /\ \A i, j \in 1..Len(dimensionVerse) :
              (EntriesOfRow(taskQuanta.inputs, taskIdx, i)
                 = EntriesOfRow(taskQuanta.inputs, taskIdx, j))
                <=> AgreeOnLinks(taskIdx, i, j)

\* two rows with different DataCoordinates were grouped into one entry
C7_Witness ==
    /\ pc = "quanta" /\ keyIdx = 1
    /\ \E i, j \in 1..Len(dimensionVerse) :
          /\ dimensionVerse[i].dataId # dimensionVerse[j].dataId
          /\ EntriesOfRow(taskQuanta.inputs, taskIdx, i)
                = EntriesOfRow(taskQuanta.inputs, taskIdx, j)
          /\ EntriesOfRow(taskQuanta.inputs, taskIdx, i) # {}

\* a quantum as the claim identifies it: the dedup keys of its outputs and of
\* its inputs, by dataset type
QuantumId(quantum) ==
    <<{<<quantum.outputs[i].datasetType, DataRefKey(quantum.outputs[i])>> :
          i \in 1..Len(quantum.outputs)},
      {<<quantum.predictedInputs[i].datasetType, DataRefKey(quantum.predictedInputs[i])>> :
          i \in 1..Len(quantum.predictedInputs)}>>

\* the set of quanta of every task node, in pipeline order
QuantaSets(nodes) ==
    [t \in 1..Len(nodes) |->
        {QuantumId(nodes[t].quanta[i]) : i \in 1..Len(nodes[t].quanta)}]

\* what the call that has ended gave: the kind of its error, or its graph
Outcome ==
    [kind |-> err.kind,
     quanta |-> IF pc = "done" THEN QuantaSets(qgraph.nodes) ELSE <<>>]

\* what quantum assembly gives for the same pipeline and registry when the
\* query returns `rows`
OutcomeFor(rows) ==
    LET r == TaskLoop(taskDatasets, rows, skipExisting, 1, <<>>)
    IN  [kind |-> r.err.kind,
         quanta |-> IF r.err = NoError THEN QuantaSets(r.nodes) ELSE <<>>]

Permuted(rows, perm) == [i \in 1..Len(rows) |-> rows[perm[i]]]

\* C8: a call that reached quantum assembly ends the same way for every
\* permutation of the rows the query returned: with an error of the same kind,
\* or with a graph that has the same set of quanta for every task. (An error
\* raised before assembly does not read the rows.)
C8_RowOrderDeterminism ==
    (Terminated /\ taskIdx >= 1) =>
        \A perm \in Orderings(1..Len(dimensionVerse)) :
            OutcomeFor(Permuted(dimensionVerse, perm)) = Outcome

\* a graph was returned for two different rows, one of whose quanta was skipped
\* and the other built
C8_Witness ==
    /\ pc = "done"
    /\ Len(dimensionVerse) = 2
    /\ dimensionVerse[1].dataId # dimensionVerse[2].dataId
    /\ \E t \in 1..NumTasks :
          Cardinality(KeysOf(t)) = 2 /\ Len(qgraph.nodes[t].quanta) = 1

\* the registry.find calls made for a dataset type, and the init-inputs recorded
FindCalls(name) == SelectSeq(calls, LAMBDA c : c.op = "find" /\ c.name = name)
InitInputRefs(name) == SelectSeq(qgraph.initInputs, LAMBDA ref : ref.datasetType = name)
InitTypeNames == {"schema", "refcat"}

\* C9: init-inputs are looked up for the types of globalInitInputs only, in the
\* collections in originInfo's order, the next collection only after a miss; the
\* dataset recorded for a type is the one of the first hit and no collection
\* after it is consulted; a type missed in every collection ends the call with
\* GraphBuilderError naming it, and quantum assembly starts only with every
\* init-input recorded.
C9_InitInputLookup ==
    (pc \in {"initInputs", "error", "done"} \/ (pc = "tasks" /\ taskIdx = 1)) =>
    /\ \A name \in InitTypeNames :
          LET finds == FindCalls(name)
              n == Len(finds)
          IN  /\ n <= Len(InputCollections)
              /\ n > 0 => name \in Names(io.initInputs)
              /\ \A i \in 1..n : finds[i].collection = InputCollections[i]
              /\ \A i \in 1..(n - 1) : finds[i].arg = NoneValue
              /\ InitInputRefs(name) =
                    (IF n > 0 /\ finds[n].arg = "found"
                     THEN <<FoundRef(finds[n].collection, name)>> ELSE <<>>)
              /\ (n = Len(InputCollections) /\ finds[n].arg = NoneValue)
                    => (pc = "error" /\ err = Error("GraphBuilderError", name, <<>>))
              /\ (taskIdx >= 1 /\ name \in Names(io.initInputs))
                    => Len(InitInputRefs(name)) = 1
    /\ err.kind = "GraphBuilderError" =>
          /\ pc = "error"
          /\ Len(FindCalls(err.name)) = Len(InputCollections)
          /\ \A i \in 1..Len(FindCalls(err.name)) : FindCalls(err.name)[i].arg = NoneValue

\* a graph was returned with an init-input found in the second collection
\* after a miss in the first
C9_Witness ==
    /\ pc = "done"
    /\ \E name \in InitTypeNames :
          /\ Len(FindCalls(name)) = 2
          /\ FindCalls(name)[1].arg = NoneValue
          /\ InitInputRefs(name) = <<FoundRef(InputCollections[2], name)>>

\* C10 as claimed: when GraphBuilderError is raised for a missing init-input,
\* selectDimensions has not been called.
C10_InitInputErrorBeforeRows ==
    err.kind = "GraphBuilderError" =>
        \A i \in 1..Len(calls) : calls[i].op # "selectDimensions"

\* C11: a non-empty user query the parser rejects ends the call with
\* UserExpressionError carrying the query string and the parser's diagnostic,
\* and no registry method (selectDimensions, find) has been called by then.
C11_ParseErrorBeforeQueries ==
    /\ (pc \notin {"call", "parse"} /\ Collected /\ userQuery # NoneValue
          /\ ParseFails(userQuery)) =>
          /\ pc = "error"
          /\ err = Error("UserExpressionError", userQuery, <<"ParserYaccError">>)
          /\ calls = <<>>
    /\ err.kind = "UserExpressionError" =>
          /\ pc = "error" /\ calls = <<>> /\ qgraph = EmptyGraph
          /\ userQuery \notin {NoneValue, ""} /\ ParseFails(userQuery)

\* Scenario E: the query "visit = )" ended the call
C11_Witness ==
    /\ pc = "error" /\ userQuery = "visit = )"
    /\ err.kind = "UserExpressionError" /\ err.name = "visit = )"

\* C12: an absent (None) or empty userQuery raises no UserExpressionError and
\* the join query is issued with no expression (None), the always-true
\* predicate, as the first registry call; absent and empty give the same
\* expression.
C12_EmptyQueryNoRestriction ==
    (pc \notin {"call", "parse"} /\ Collected /\ userQuery \in {NoneValue, ""}) =>
        /\ err.kind # "UserExpressionError"
        /\ pc # "select" =>
              /\ Len(calls) >= 1
              /\ calls[1] = Call("selectDimensions", NoneValue, NoneValue, NoneValue)
        /\ expr = NoneValue
        /\ \A coordinate \in Coordinates : Selects(expr, coordinate)

\* the empty string was given and both rows of the registry were returned
C12_Witness ==
    /\ pc = "done" /\ userQuery = ""
    /\ calls[1].op = "selectDimensions" /\ calls[1].arg = NoneValue
    /\ Len(dimensionVerse) = 2 /\ dimensionVerse[1].dataId # dimensionVerse[2].dataId

\* C13: every error ends the call where it arises: an exception is recorded
\* only in the error state, no step of the call follows it, the graph is
\* returned only without an exception, the steps after the failing one have
\* left no trace (no registry call after a parse error, no task loop after an
\* init-input error, no node of the failing task or of a later one after an
\* OutputExistsError), and no registry call or class load is made twice.
C13_ErrorsAbort ==
    /\ err # NoError <=> pc = "error"
    /\ pc = "error" => ~ENABLED Next
    /\ pc = "done" => err = NoError /\ Len(qgraph.nodes) = NumTasks
    /\ (pc = "error" /\ err.kind = "Exception" /\ err.name # "selectDimensions")
          => taskDatasets = <<>> /\ calls = <<>> /\ qgraph = EmptyGraph
    /\ (pc = "error" /\ err.name = "selectDimensions")
          => Len(calls) = 1 /\ dimensionVerse = <<>> /\ qgraph = EmptyGraph
    /\ (pc = "error" /\ err.kind = "UserExpressionError")
          => calls = <<>> /\ qgraph = EmptyGraph
    /\ (pc = "error" /\ err.kind = "GraphBuilderError")
          => taskIdx = 0 /\ qgraph.nodes = <<>> /\ qgraph.initOutputs = <<>>
    /\ (pc = "error" /\ err.kind = "OutputExistsError")
          => Len(qgraph.nodes) = taskIdx - 1 /\ taskIdx <= NumTasks
    /\ \A i, j \in 1..Len(calls) : calls[i] = calls[j] => i = j
    /\ Len(loaded) <= Len(pipeline)

\* OutputExistsError at the second task, after the node of the first was assembled
C13_Witness ==
    /\ pc = "error" /\ err.kind = "OutputExistsError"
    /\ taskIdx = 2 /\ Len(qgraph.nodes) = 1 /\ Len(qgraph.nodes[1].quanta) >= 1

\* the registry methods that read only
ReadOnlyOps == {"selectDimensions", "find"}

\* C14: on every path of makeGraph, successful or failing, each step calls no
\* registry method other than the join query (selectDimensions) and the
\* single-dataset lookup (find), and leaves the registry's datasets as they
\* were when the join query read them.
C14_ReadOnlyCatalog ==
    [][/\ \A i \in 1..Len(calls') : calls'[i].op \in ReadOnlyOps
       /\ Len(calls') >= Len(calls)
       /\ \A i \in 1..Len(calls) : calls'[i] = calls[i]
       /\ pc # "select" => existing' = existing]_vars

\* a graph was returned after a join query over a registry that holds outputs
\* and after a lookup
C14_Witness ==
    /\ pc = "done" /\ existing # {}
    /\ \E i, j \in 1..Len(calls) : calls[i].op = "selectDimensions" /\ calls[j].op = "find"

\* C15: after makeGraph every TaskDef of the caller's pipeline is as the caller
\* made it. A TaskDef that came with its task class is the very TaskDef the
\* builder works with and the task factory was not asked for it; a TaskDef
\* that came without one still has no class and its original name, the
\* builder works with a copy that has the loaded class and the canonical name
\* (label and config as in the original), and the factory was asked once.
C15_PipelineNotMutated ==
    pc # "call" =>
        /\ \A t \in 1..Len(pipeline) : pipeline[t] = TaskDef(pipeline[t].config)
        /\ Collected =>
              /\ Len(taskDatasets) = Len(pipeline)
              /\ loaded = LoadRequests(pipeline)
              /\ \A t \in 1..Len(pipeline) :
                    LET original == pipeline[t]
                        used == taskDatasets[t].taskDef
                    IN  IF ClassLoaded(original.config)
                        THEN /\ used = original
                             /\ original.taskName \notin Range(loaded)
                        ELSE /\ original.taskClass = NoneValue
                             /\ original.taskName = LabelOf(original.config)
                             /\ used.taskClass = LoadedClass(original.taskName)
                             /\ used.taskName = CanonicalName(original.taskName)
                             /\ used.taskName # original.taskName
                             /\ used.label = original.label /\ used.config = original.config
                             /\ Cardinality({i \in 1..Len(loaded) :
                                                loaded[i] = original.taskName}) = 1

\* a graph was returned for a pipeline of a TaskDef without a class and one with
C15_Witness ==
    /\ pc = "done" /\ Len(pipeline) = 2
    /\ pipeline[1].taskClass = NoneValue /\ pipeline[2].taskClass # NoneValue
    /\ qgraph.nodes[1].taskDef.taskClass # NoneValue
    /\ qgraph.nodes[2].taskDef = pipeline[2]

\* C16: a returned graph has one task node per TaskDef of the pipeline, in
\* pipeline order, each with the TaskDef the builder resolved for it, also when
\* the node has no quanta (every key skipped, or no rows); its input and output
\* dataset-type sets are those of the global reduction, by name
\* union(inputs) minus union(outputs), and union(outputs).
C16_OneNodePerTask ==
    pc = "done" =>
        /\ Len(qgraph.nodes) = Len(pipeline)
        /\ \A t \in 1..Len(pipeline) :
              /\ qgraph.nodes[t].taskDef = taskDatasets[t].taskDef
              /\ qgraph.nodes[t].taskDef.label = pipeline[t].label
              /\ qgraph.nodes[t].taskDef.config = pipeline[t].config
        /\ qgraph.inputDatasetTypes = io.inputs
        /\ qgraph.outputDatasetTypes = io.outputs
        /\ Names(qgraph.inputDatasetTypes) = Declared("inputs") \ Declared("outputs")
        /\ Names(qgraph.outputDatasetTypes) = Declared("outputs")

\* a graph was returned whose first node has no quanta, all its keys having
\* been skipped, and whose second node has quanta
C16_Witness ==
    /\ pc = "done" /\ Len(pipeline) = 2 /\ dimensionVerse # <<>>
    /\ ConfigOf(1).outputs # <<>>
    /\ qgraph.nodes[1].quanta = <<>> /\ qgraph.nodes[2].quanta # <<>>

\* C17 as claimed: an OutputExistsError names the task and carries the
\* conflicting output refs only: every ref it carries exists, and in Scenario C
\* (T1 with outputs calexp and psf, calexp of the row existing, psf not) it
\* carries the calexp ref and not the psf ref.
C17_ErrorCarriesExistingRefs ==
    (pc = "error" /\ err.kind = "OutputExistsError") =>
        /\ err.name = taskDatasets[taskIdx].taskDef.taskName
        /\ err.refs # <<>>
        /\ \A i \in 1..Len(err.refs) : Exists(err.refs[i])
        /\ InstancesOf(err.refs) \subseteq existing

\* the refs the rows of a key give for the dataset types `names`
RowRefs(t, key, names) ==
    {dimensionVerse[i].datasetRefs[names[n]] : n \in 1..Len(names), i \in RowsOfKey(t, key)}

\* C18: in a returned graph every quantum of a task is the quantum of one
\* grouping key of that task: its predicted inputs are the refs the rows of the
\* key give for the task's declared input types, one per dataset instance, and
\* its outputs the refs those rows give for the declared output types, one per
\* instance; nothing of another type or another key, nothing missing. In
\* Scenario A (T1, T2 over the rows of detectors 10 and 11, nothing existing)
\* T1 and T2 have two quanta each, and each T1 quantum has the raw input and
\* the calexp output of one row.
C18_QuantumRefsFromItsRows ==
    pc = "done" =>
        /\ \A t \in 1..NumTasks : \A i \in 1..Len(qgraph.nodes[t].quanta) :
              LET quantum == qgraph.nodes[t].quanta[i]
              IN  \E key \in KeysOf(t) :
                      /\ Range(quantum.predictedInputs) = RowRefs(t, key, ConfigOf(t).inputs)
                      /\ Range(quantum.outputs) = RowRefs(t, key, ConfigOf(t).outputs)
                      /\ InstancesOf(quantum.predictedInputs) = CandidateInputs(t, key)
                      /\ InstancesOf(quantum.outputs) = CandidateOutputs(t, key)
                      /\ Len(quantum.predictedInputs) = Cardinality(CandidateInputs(t, key))
                      /\ Len(quantum.outputs) = Cardinality(CandidateOutputs(t, key))
        /\ (/\ ConfigsOfPipeline = <<"T1", "T2">>
            /\ CoordinatesOfRows = <<Coordinate(1, 10), Coordinate(1, 11)>>
            /\ existing = {})
              => /\ Len(qgraph.nodes[1].quanta) = 2 /\ Len(qgraph.nodes[2].quanta) = 2
                 /\ \A i \in 1..2 : \E row \in Range(CoordinatesOfRows) :
                       /\ InstancesOf(qgraph.nodes[1].quanta[i].predictedInputs)
                             = {Instance("raw", row)}
                       /\ InstancesOf(qgraph.nodes[1].quanta[i].outputs)
                             = {Instance("calexp", row)}
                 /\ qgraph.nodes[1].quanta[1] # qgraph.nodes[1].quanta[2]
                 /\ qgraph.nodes[2].quanta[1] # qgraph.nodes[2].quanta[2]

\* Scenario A has run to its end
C18_Witness ==
    /\ pc = "done"
    /\ ConfigsOfPipeline = <<"T1", "T2">>
    /\ CoordinatesOfRows = <<Coordinate(1, 10), Coordinate(1, 11)>>
    /\ existing = {}
    /\ Len(qgraph.nodes[1].quanta) = 2

\* C19: for a method wrapped by timeMethod the metadata holds the method's
\* Start entries before anything the body adds, and once the body has
\* finished, by return or by raise, the End entries after that: the caller
\* gets the body's result unchanged, or the body's exception, only with the
\* End entries recorded; while the body runs no End entry is recorded.
C19_TimeMethodStartEnd ==
    LET start == LogInfo(timed.func, "Start")
        body == MethodBody(timed.func, timed.val, timed.addend)
        end == LogInfo(timed.func, "End")
    IN  /\ pc = "timer.body" => metadata = start
        /\ pc = "timer.end" => metadata = start \o body.added
        /\ pc \in {"timer.returned", "timer.raised"} =>
              metadata = start \o body.added \o end
        /\ pc = "timer.returned" =>
              /\ timed.exc = NoneValue /\ timed.propagated = NoneValue
              /\ timed.returned = body.res /\ timed.returned # NoResult
        /\ pc = "timer.raised" =>
              /\ timed.propagated = body.exc /\ timed.propagated = "RuntimeError"
              /\ timed.returned = NoResult
              /\ MetadataName(timed.func, "End", "CpuTime") \in Range(metadata)

\* testFail: failDec raised to its caller
C19_Witness ==
    /\ pc = "timer.raised" /\ timed.func = "failDec"
    /\ MetadataName("failDec", "End", "CpuTime") \in Range(metadata)

BuildStarted == pc \in {"build.accumulate", "build.export", "build.setup", "build.import",
                        "build.done", "build.raised"}
RemovalOps == {"os.remove", "shutil.rmtree"}

FirstDeclaration(name) ==
    LET decls == Declarations(taskDatasets)
        first == CHOOSE i \in 1..Len(decls) :
                    /\ decls[i][2].name = name
                    /\ \A j \in 1..(i - 1) : decls[j][2].name # name
    IN  decls[first][2]

\* C21 as claimed: every DatasetType of the four global sets is the one of the
\* first declaration of its name in pipeline order.
C21_FirstOccurrenceWins ==
    (pc = "parse" /\ Collected) =>
        \A k \in 1..Len(IoTypes) : \A dsType \in io[IoTypes[k]] :
            dsType = FirstDeclaration(dsType.name)


\* the quanta the "for qkey" loop gives for a task on its own: from the rows,
\* the task's dataset types and quantum dimensions, and skipExisting
QuantaOfTask(taskDss, rows, skip) ==
    QuantumLoop(taskDss, GroupRows(taskDss, rows), skip,
                [keyIdx |-> 1, quanta |-> <<>>, err |-> NoError])

\* C22: in a returned graph the quanta of every task are those the task gets on
\* its own from the buffered rows, its dataset types and quantum dimensions and
\* skipExisting: one quantum for every grouping key that is not skipped, none
\* for a skipped key, whatever was emitted or skipped for the other tasks; and
\* the tasks taken in any other order give no error and the same quanta, task
\* by task.
C22_PerTaskIndependence ==
    pc = "done" =>
        /\ Len(qgraph.nodes) = NumTasks
        /\ \A t \in 1..NumTasks :
              /\ QuantaOfTask(taskDatasets[t], dimensionVerse, skipExisting).err = NoError
              /\ qgraph.nodes[t].quanta
                    = QuantaOfTask(taskDatasets[t], dimensionVerse, skipExisting).quanta
              /\ \A key \in KeysOf(t) :
                    Cardinality(QuantaOfKey(qgraph.nodes[t].quanta, t, key))
                      = IF skipExisting /\ CandidateOutputs(t, key) \subseteq existing
                        THEN 0 ELSE 1
              /\ Len(qgraph.nodes[t].quanta)
                    = Cardinality({key \in KeysOf(t) :
                         ~(skipExisting /\ CandidateOutputs(t, key) \subseteq existing)})
        /\ \A perm \in Orderings(1..NumTasks) :
              LET r == TaskLoop(Permuted(taskDatasets, perm), dimensionVerse,
                                skipExisting, 1, <<>>)
              IN  /\ r.err = NoError
                  /\ \A i \in 1..NumTasks :
                        r.nodes[i].quanta = qgraph.nodes[perm[i]].quanta

\* a graph was returned in which T1's quantum for a key was skipped, its
\* outputs existing, while the task after it has a quantum for that key
C22_Witness ==
    /\ pc = "done" /\ skipExisting /\ NumTasks = 2
    /\ \E key \in KeysOf(1) :
          /\ FullyProduced(1, key)
          /\ QuantaOfKey(qgraph.nodes[1].quanta, 1, key) = {}
          /\ key \in KeysOf(2)
          /\ QuantaOfKey(qgraph.nodes[2].quanta, 2, key) # {}
          /\ qgraph.nodes[1].quanta # <<>>

\* _runParsedCmd is running or has ended
InRunParsedCmd == pc \in {"cmd.config", "cmd.run", "cmd.metadata", "cmd.done", "cmd.raised"}

\* the three things attempted for a data reference, in the order claimed
Stages == <<"put:config", "run", "put:metadata">>

\* the attempts of the log, as <<stage, dataId>>, in order
Attempts ==
    LET tried == SelectSeq(cmdLog, LAMBDA e : e[1] \in Range(Stages))
    IN  [i \in 1..Len(tried) |-> <<tried[i][1], tried[i][2]>>]

\* the stages done for the data reference the loop stands at
StagesDone ==
    CASE pc = "cmd.run" -> 1
      [] pc \in {"cmd.metadata", "cmd.raised"} -> 2
      [] OTHER -> 0

\* the first n stages of the data reference at index i
StagesOf(i, n) == [k \in 1..n |-> <<Stages[k], parsedCmd.dataRefList[i]>>]

\* the attempts claimed: all three stages of the references before the index,
\* in list order, then the stages done for the reference at the index
ExpectedAttempts ==
    Concat([i \in 1..(dataRefIdx - 1) |-> StagesOf(i, 3)])
      \o (IF dataRefIdx <= Len(parsedCmd.dataRefList)
          THEN StagesOf(dataRefIdx, StagesDone) ELSE <<>>)

Failed(e) == e[1] \in Range(Stages) /\ e[3] # "ok"

\* C23: _runParsedCmd takes the data references in list order and, for each,
\* attempts config persistence, then run, then metadata persistence. Without
\* doraise no exception leaves the call: a failed put is followed by its WARN
\* message, a failed run by its FATAL message, the loop always has a next
\* step, and it ends with all three stages attempted for every reference,
\* whatever failed before. With doraise a failed run is the last thing the
\* call does: its exception leaves the call, with no metadata put for that
\* reference and nothing for a later one.
C23_RunParsedCmdIsolation ==
    InRunParsedCmd =>
        /\ Attempts = ExpectedAttempts
        /\ pc = "cmd.done" => dataRefIdx = Len(parsedCmd.dataRefList) + 1
        /\ pc \notin {"cmd.done", "cmd.raised"} => ENABLED Next
        /\ \A i \in 1..Len(cmdLog) :
              /\ (Failed(cmdLog[i]) /\ cmdLog[i][1] = "put:config")
                    => i < Len(cmdLog) /\ cmdLog[i + 1] = <<"log.WARN", cmdLog[i][2], "config">>
              /\ (Failed(cmdLog[i]) /\ cmdLog[i][1] = "put:metadata")
                    => i < Len(cmdLog) /\ cmdLog[i + 1] = <<"log.WARN", cmdLog[i][2], "metadata">>
              /\ (Failed(cmdLog[i]) /\ cmdLog[i][1] = "run" /\ ~parsedCmd.doraise)
                    => i < Len(cmdLog)
                         /\ cmdLog[i + 1] = <<"log.FATAL", cmdLog[i][2], cmdLog[i][3]>>
              /\ (Failed(cmdLog[i]) /\ cmdLog[i][1] = "run" /\ parsedCmd.doraise)
                    => i = Len(cmdLog) /\ pc = "cmd.raised"
        /\ ~parsedCmd.doraise => pc # "cmd.raised" /\ cmdExc = NoneValue
        /\ pc = "cmd.raised" =>
              /\ parsedCmd.doraise
              /\ cmdLog # <<>>
              /\ cmdLog[Len(cmdLog)] = <<"run", DataRef, cmdExc>>
              /\ cmdExc \in RunOutcomes \ {"ok"}
              /\ ~ENABLED Next
        /\ pc # "cmd.raised" => cmdExc = NoneValue

\* without doraise the call ended after two data references: for the first the
\* config put, run and the metadata put all failed, and run was attempted on
\* the second
C23_Witness ==
    /\ pc = "cmd.done" /\ ~parsedCmd.doraise /\ Len(parsedCmd.dataRefList) = 2
    /\ \E i, j, k, l \in 1..Len(cmdLog) :
          /\ i < j /\ j < k /\ k < l
          /\ cmdLog[i] = <<"put:config", parsedCmd.dataRefList[1], "Exception">>
          /\ cmdLog[j] = <<"run", parsedCmd.dataRefList[1], "Exception">>
          /\ cmdLog[k] = <<"put:metadata", parsedCmd.dataRefList[1], "Exception">>
          /\ cmdLog[l] = <<"run", parsedCmd.dataRefList[2], "ok">>

\* a set of collections that holds the children of every chain in it
ClosedUnderChains(names) == \A c \in names : chains[c] \subseteq names

\* the collections reachable through chains from the given ones: those in
\* every closed set that holds the given ones
ReachableFrom(names) ==
    {c \in CollectionNames :
        \A closed \in SUBSET CollectionNames :
            (names \subseteq closed /\ ClosedUnderChains(closed)) => c \in closed}

Discovering == pc = "export.discover"
Discovered == pc \in {"export.returned", "export.saved"}

\* C24: _discoverCollections returns, whatever the registry and the collections
\* it starts from: a pass of its loop that does not end it adds a collection of
\* the registry to its set, and the call comes to its return. The set returned
\* is closed under discovery: a query with it gives no collection outside it,
\* and it is the set of the collections reachable through chains from the
\* requested ones, all of which _export saves.
C24_DiscoverCollections ==
    /\ [](Discovered =>
            /\ \A found \in QueryCollections(chains, collections) : found \subseteq collections
            /\ ClosedUnderChains(collections)
            /\ collections = ReachableFrom(requested)
            /\ pc = "export.saved" => savedCollections = collections)
    /\ [][(Discovering /\ Discovering')
            => (collections \subseteq collections' /\ collections' # collections
                /\ collections' \subseteq CollectionNames)]_vars
    /\ (Discovering ~> Discovered)

\* the collections of a chain of chains were saved, the call having started
\* from the outer chain alone and its loop having taken more than one pass to
\* find them
C24_Witness ==
    /\ pc = "export.saved"
    /\ Cardinality(requested) = 1
    /\ \E c \in requested : \E child \in chains[c] :
          /\ chains[child] # {}
          /\ ~(chains[child] \subseteq chains[c])
          /\ chains[child] \subseteq savedCollections
====
